---- MODULE Spec2Model ----
(***************************************************************************)
(* Inventory ledger (Manager) with its allocation strategies               *)
(* (RoundRobinAllocator, GreedyAllocator), the shared availability         *)
(* predicate and the admission filters, modelled from src/src/main.rs,     *)
(* src/src/allocators.rs and src/src/filters.rs.                           *)
(***************************************************************************)
EXTENDS Integers, Sequences, FiniteSets, TLC

(***************************************************************************)
(* Program constant and model bounds                                       *)
(***************************************************************************)
\* const MAX_INVENTORY_SIZE: usize = 3
MAX_INVENTORY_SIZE == 3

\* number of successful insert_item calls explored in one behaviour
MaxInserts == 3

\* Option<T>: None, and Some(x) with its unwrap
None == << >>

Some(x) == <<x>>

unwrap(o) == o[1]

(***************************************************************************)
(* Slot, Quality, Item                                                     *)
(***************************************************************************)
\* Slot::from((row, shelf, zone))
Slot(r, sh, z) == [row |-> r, shelf |-> sh, zone |-> z]

Axis == 0 .. (MAX_INVENTORY_SIZE - 1)

\* the coordinates of the grid
GridSlots == {Slot(r, sh, z) : r \in Axis, sh \in Axis, z \in Axis}

\* Slot::distance (Manhattan distance from the origin)
distance(slot) == slot.row + slot.shelf + slot.zone

\* enum Quality; the fields a variant does not carry are 0
Normal == [kind |-> "Normal", size |-> 0, expiration_date |-> 0, max_row |-> 0]

OverSized(n) == [kind |-> "OverSized", size |-> n, expiration_date |-> 0, max_row |-> 0]

Fragile(d, m) == [kind |-> "Fragile", size |-> 0, expiration_date |-> d, max_row |-> m]

\* Item::new: the timestamp is None until the ledger commits the item
Item(i, n, q, ql) == [id |-> i, name |-> n, quantity |-> q, quality |-> ql, timestamp |-> None]

\* Item::update_timestamp: the timestamp becomes Some(now)
update_timestamp(item) == [item EXCEPT !.timestamp = Some("now")]

\* impl PartialEq for Item: the timestamp is not compared
ItemEq(a, b) ==
    /\ a.id = b.id
    /\ a.name = b.name
    /\ a.quantity = b.quantity
    /\ a.quality = b.quality

(***************************************************************************)
(* Inputs of the operations                                                *)
(***************************************************************************)
\* the items a caller may hand to insert_item: two ids and two names that do
\* not determine each other, every OverSized span from 0 to
\* MAX_INVENTORY_SIZE + 1, two expiry dates and two max_row values
Items ==
    {Item(0, "A", 1, Normal)}
    \cup {Item(1, "B", 1, OverSized(n)) : n \in 0 .. (MAX_INVENTORY_SIZE + 1)}
    \cup {Item(0, "B", 2, Fragile(1, 0)), Item(1, "A", 1, Fragile(2, 1))}

ItemIds == {it.id : it \in Items}

ItemNames == {it.name : it \in Items}

\* expiry dates of the items and the query times around them
Dates == {it.quality.expiration_date : it \in {x \in Items : x.quality.kind = "Fragile"}}

Times == {0} \cup Dates \cup {d + 1 : d \in Dates}

\* the coordinates a caller may hand to remove_item / get_item: the grid and
\* one coordinate outside it
Coords == GridSlots \cup {Slot(0, 0, MAX_INVENTORY_SIZE)}

(***************************************************************************)
(* Finite maps (HashMap / BTreeMap) as functions on their key set          *)
(***************************************************************************)
EmptyMap == [k \in {} |-> 0]

\* map with key k bound to v
Put(m, k, v) == [x \in (DOMAIN m) \cup {k} |-> IF x = k THEN v ELSE m[x]]

\* HashMap::retain / HashMap::remove: keep the keys in ks
Restrict(m, ks) == [x \in ks |-> m[x]]

\* Vec::retain(|s| *s != *slot)
Retain(vec, slot) == SelectSeq(vec, LAMBDA s : s # slot)

(***************************************************************************)
(* AllocStrategy: the availability predicate shared by both strategies     *)
(***************************************************************************)
\* AllocStrategy::get_item_size
get_item_size(item) ==
    IF item.quality.kind = "OverSized" THEN item.quality.size ELSE 1

\* is_slot_available without the backward check
is_slot_available_forward_only(slot, item, inventory) ==
    LET size == get_item_size(item)
        end == slot.zone + size
        is_blocked_forward ==
            \E z \in slot.zone .. (end - 1) :
                Slot(slot.row, slot.shelf, z) \in DOMAIN inventory
    IN  IF slot.zone + size > MAX_INVENTORY_SIZE THEN FALSE
        ELSE ~is_blocked_forward

\* is_slot_available without the test of slot.zone + size against the grid
is_slot_available_unbounded(slot, item, inventory) ==
    LET size == get_item_size(item)
        end == slot.zone + size
        is_blocked_forward ==
            \E z \in slot.zone .. (end - 1) :
                Slot(slot.row, slot.shelf, z) \in DOMAIN inventory
        is_blocked_backward ==
            \E zone \in 0 .. (slot.zone - 1) :
                /\ Slot(slot.row, slot.shelf, zone) \in DOMAIN inventory
                /\ get_item_size(inventory[Slot(slot.row, slot.shelf, zone)]) + zone
                       > slot.zone
    IN  IF is_blocked_forward THEN FALSE
        ELSE ~is_blocked_backward

\* is_slot_available whose backward check uses >= instead of >
is_slot_available_backward_inclusive(slot, item, inventory) ==
    LET size == get_item_size(item)
        end == slot.zone + size
        is_blocked_forward ==
            \E z \in slot.zone .. (end - 1) :
                Slot(slot.row, slot.shelf, z) \in DOMAIN inventory
        is_blocked_backward ==
            \E zone \in 0 .. (slot.zone - 1) :
                /\ Slot(slot.row, slot.shelf, zone) \in DOMAIN inventory
                /\ get_item_size(inventory[Slot(slot.row, slot.shelf, zone)]) + zone
                       >= slot.zone
    IN  IF slot.zone + size > MAX_INVENTORY_SIZE THEN FALSE
        ELSE IF is_blocked_forward THEN FALSE
        ELSE ~is_blocked_backward

\* AllocStrategy::is_slot_available
is_slot_available(slot, item, inventory) ==
    LET size == get_item_size(item)
        end == slot.zone + size
        is_blocked_forward ==
            \E z \in slot.zone .. (end - 1) :
                Slot(slot.row, slot.shelf, z) \in DOMAIN inventory
        is_blocked_backward ==
            \E zone \in 0 .. (slot.zone - 1) :
                /\ Slot(slot.row, slot.shelf, zone) \in DOMAIN inventory
                /\ get_item_size(inventory[Slot(slot.row, slot.shelf, zone)]) + zone
                       > slot.zone
    IN  IF slot.zone + size > MAX_INVENTORY_SIZE THEN FALSE
        ELSE IF is_blocked_forward THEN FALSE
        ELSE ~is_blocked_backward

\* the match on item.quality without the row bound of Fragile
quality_accepts_any_row(slot, item) == TRUE

\* the match on item.quality inside both alloc loops: Normal and OverSized
\* take any available slot, Fragile only one with slot.row <= max_row
quality_accepts(slot, item) ==
    \/ item.quality.kind \in {"Normal", "OverSized"}
    \/ item.quality.kind = "Fragile" /\ slot.row <= item.quality.max_row

\* the for loop of both alloc functions from position i of the scan order on:
\* the first slot the loop body returns, None when the loop runs to its end
RECURSIVE FirstAcceptedFrom(_, _, _, _)
FirstAcceptedFrom(scan, i, item, inventory) ==
    IF i > Len(scan) THEN None
    ELSE IF is_slot_available(scan[i], item, inventory) /\ quality_accepts(scan[i], item)
         THEN Some(scan[i])
         ELSE FirstAcceptedFrom(scan, i + 1, item, inventory)

FirstAccepted(scan, item, inventory) == FirstAcceptedFrom(scan, 1, item, inventory)

(***************************************************************************)
(* RoundRobinAllocator                                                     *)
(***************************************************************************)
\* RoundRobinAllocator::default
RoundRobinDefault == [kind |-> "RoundRobin", prev_alloc |-> None]

\* get_start_pos that always restarts at the origin
get_start_pos_origin(prev_alloc) == Slot(0, 0, 0)

\* RoundRobinAllocator::get_start_pos
get_start_pos(prev_alloc) ==
    IF prev_alloc = None THEN Slot(0, 0, 0) ELSE unwrap(prev_alloc)

\* iproduct!(row_start..N, shelf_start..N, zone_start..N): the slots of the
\* three ranges' product, the last range varying fastest
RoundRobinScan(start) ==
    LET nS == MAX_INVENTORY_SIZE - start.shelf
        nZ == MAX_INVENTORY_SIZE - start.zone
        total == (MAX_INVENTORY_SIZE - start.row) * nS * nZ
    IN  [i \in 1 .. total |->
            Slot(start.row + ((i - 1) \div (nS * nZ)),
                 start.shelf + (((i - 1) \div nZ) % nS),
                 start.zone + ((i - 1) % nZ))]

\* the scan order of every start position, each computed once
RoundRobinScans == [start \in GridSlots |-> RoundRobinScan(start) \o << >>]

\* alloc without the reset of prev_alloc after a failed search
RoundRobinAlloc_no_reset(prev_alloc, item, inventory) ==
    LET found == FirstAccepted(RoundRobinScans[get_start_pos(prev_alloc)], item, inventory)
    IN  [slot |-> found, prev_alloc |-> IF found = None THEN prev_alloc ELSE found]

\* RoundRobinAllocator::alloc: the slot returned (or None) and the value
\* prev_alloc holds when the call returns
RoundRobinAlloc(prev_alloc, item, inventory) ==
    LET found == FirstAccepted(RoundRobinScans[get_start_pos(prev_alloc)], item, inventory)
    IN  [slot |-> found, prev_alloc |-> found]

(***************************************************************************)
(* GreedyAllocator                                                         *)
(***************************************************************************)
GreedyDefault == [kind |-> "Greedy", prev_alloc |-> None]

\* itertools permutations(3) of a three-element array, in its order
permutations3(a) ==
    << <<a[1], a[2], a[3]>>, <<a[1], a[3], a[2]>>, <<a[2], a[1], a[3]>>,
       <<a[2], a[3], a[1]>>, <<a[3], a[1], a[2]>>, <<a[3], a[2], a[1]>> >>

\* the inner flat_map over j in 0..=dist-i
RECURSIVE flat_map_j(_, _, _)
flat_map_j(dist, i, j) ==
    IF j > dist - i THEN << >>
    ELSE permutations3(<<i, j, dist - i - j>>) \o flat_map_j(dist, i, j + 1)

\* the outer flat_map over i in 0..=dist
RECURSIVE flat_map_i(_, _)
flat_map_i(dist, i) ==
    IF i > dist THEN << >>
    ELSE flat_map_j(dist, i, 0) \o flat_map_i(dist, i + 1)

\* itertools unique(): the first occurrence of every element, in order
unique(seq) ==
    LET firsts == {i \in DOMAIN seq : \A j \in 1 .. (i - 1) : seq[j] # seq[i]}
    IN  [n \in 1 .. Cardinality(firsts) |->
            seq[CHOOSE i \in firsts : Cardinality({j \in firsts : j < i}) = n - 1]]

\* slots_by_distance without unique()
slots_by_distance_repeating(dist) ==
    LET perms == flat_map_i(dist, 0)
        kept == SelectSeq(perms, LAMBDA p :
                    /\ p[1] < MAX_INVENTORY_SIZE
                    /\ p[2] < MAX_INVENTORY_SIZE
                    /\ p[3] < MAX_INVENTORY_SIZE)
    IN  [n \in DOMAIN kept |-> Slot(kept[n][1], kept[n][2], kept[n][3])]

\* GreedyAllocator::slots_by_distance
slots_by_distance(dist) ==
    LET perms == unique(flat_map_i(dist, 0))
        kept == SelectSeq(perms, LAMBDA p :
                    /\ p[1] < MAX_INVENTORY_SIZE
                    /\ p[2] < MAX_INVENTORY_SIZE
                    /\ p[3] < MAX_INVENTORY_SIZE)
    IN  [n \in DOMAIN kept |-> Slot(kept[n][1], kept[n][2], kept[n][3])]

\* the distances alloc iterates over: 0..=3 * (MAX_INVENTORY_SIZE - 1)
Distances == 0 .. (3 * (MAX_INVENTORY_SIZE - 1))

\* slots_by_distance(dist) for every distance of alloc, each computed once
DistanceLayers == [dist \in Distances |-> slots_by_distance(dist) \o << >>]

\* for dist in 0..=3 * (MAX_INVENTORY_SIZE - 1) { for slot in slots_by_distance(dist)
RECURSIVE GreedyScanFrom(_)
GreedyScanFrom(dist) ==
    IF dist > 3 * (MAX_INVENTORY_SIZE - 1) THEN << >>
    ELSE slots_by_distance(dist) \o GreedyScanFrom(dist + 1)

\* the grid in lexicographic order instead of by distance
GreedyScan_lexicographic == RoundRobinScans[Slot(0, 0, 0)]

GreedyScan == GreedyScanFrom(0)

\* a Greedy alloc that keeps a cursor: it resumes from the slot it returned
\* last, as Round-Robin does
GreedyAlloc_resuming(prev_alloc, item, inventory) ==
    RoundRobinAlloc(prev_alloc, item, inventory)

\* GreedyAllocator::alloc: no internal state to update
GreedyAlloc(prev_alloc, item, inventory) ==
    [slot |-> FirstAccepted(GreedyScan, item, inventory), prev_alloc |-> prev_alloc]

\* AllocStrategy::alloc, dispatched on the ledger's strategy
alloc(allocator, item, inventory) ==
    IF allocator.kind = "RoundRobin"
    THEN RoundRobinAlloc(allocator.prev_alloc, item, inventory)
    ELSE GreedyAlloc(allocator.prev_alloc, item, inventory)

(***************************************************************************)
(* Filters                                                                 *)
(***************************************************************************)
\* LimitOverSized::new
LimitOverSized(max) ==
    [kind |-> "LimitOverSized", id |-> 0, max_allowed |-> max, quality |-> Normal]

\* LimitItemQuantity::new
LimitItemQuantity(i, max) ==
    [kind |-> "LimitItemQuantity", id |-> i, max_allowed |-> max, quality |-> Normal]

\* BanQuality::new
BanQuality(q) ==
    [kind |-> "BanQuality", id |-> 0, max_allowed |-> 0, quality |-> q]

\* .map(|item| item.quantity).sum() over the occupants at the slots in ss
RECURSIVE SumQuantity(_, _)
SumQuantity(inventory, ss) ==
    IF ss = {} THEN 0
    ELSE LET s == CHOOSE x \in ss : TRUE
         IN  inventory[s].quantity + SumQuantity(inventory, ss \ {s})

\* LimitOverSized::filter comparing with <= instead of <
LimitOverSized_filter_inclusive(f, item, inventory) ==
    IF item.quality.kind \in {"Normal", "Fragile"} THEN TRUE
    ELSE Cardinality({s \in DOMAIN inventory : inventory[s].quality.kind = "OverSized"})
             <= f.max_allowed

\* LimitOverSized::filter
LimitOverSized_filter(f, item, inventory) ==
    IF item.quality.kind \in {"Normal", "Fragile"} THEN TRUE
    ELSE Cardinality({s \in DOMAIN inventory : inventory[s].quality.kind = "OverSized"})
             < f.max_allowed

\* LimitItemQuantity::filter that leaves the candidate's quantity out of the sum
LimitItemQuantity_filter_stored_only(f, item, inventory) ==
    IF item.id # f.id THEN TRUE
    ELSE SumQuantity(inventory, {s \in DOMAIN inventory : inventory[s].id = f.id})
             <= f.max_allowed

\* LimitItemQuantity::filter
LimitItemQuantity_filter(f, item, inventory) ==
    IF item.id # f.id THEN TRUE
    ELSE SumQuantity(inventory, {s \in DOMAIN inventory : inventory[s].id = f.id})
             + item.quantity <= f.max_allowed

\* BanQuality::filter comparing the variant only, not its payload
BanQuality_filter_variant_only(f, item, inventory) ==
    IF f.quality.kind = item.quality.kind THEN FALSE ELSE TRUE

\* BanQuality::filter
BanQuality_filter(f, item, inventory) ==
    IF f.quality = item.quality THEN FALSE ELSE TRUE

\* Filter::filter, dispatched on the filter's type
filter(f, item, inventory) ==
    CASE f.kind = "LimitOverSized" -> LimitOverSized_filter(f, item, inventory)
      [] f.kind = "LimitItemQuantity" -> LimitItemQuantity_filter(f, item, inventory)
      [] f.kind = "BanQuality" -> BanQuality_filter(f, item, inventory)

\* the filter chains a ledger is constructed with: none, and the three
\* presets of the filter test
FilterChains ==
    { << >>,
      << LimitOverSized(1), LimitItemQuantity(0, 3), BanQuality(OverSized(MAX_INVENTORY_SIZE)) >> }

(***************************************************************************)
(* Manager: the ledger's state                                             *)
(***************************************************************************)
VARIABLES
    inventory,   \* HashMap<Slot, Item>: the occupancy map, keyed by anchor
    allocator,   \* the strategy and, for RoundRobin, its prev_alloc
    filters,     \* Vec<Box<dyn Filter>>
    map_ids,     \* HashMap<usize, usize>: id -> count
    map_names,   \* HashMap<String, usize>: name -> count
    map_slots,   \* HashMap<usize, Vec<Slot>>: id -> slots
    map_dates,   \* BTreeMap<DateTime, Vec<Slot>>: expiration date -> slots
    last,        \* the call that produced this state, its arguments and result
    inserts      \* successful insert_item calls so far

vars == <<inventory, allocator, filters, map_ids, map_names, map_slots, map_dates,
          last, inserts>>

\* the occupancy map and the four indices
ledger == <<inventory, map_ids, map_names, map_slots, map_dates>>

NoItem == Item(0, "", 0, Normal)

\* the record of a call: for insert_item the item and the anchor returned, for
\* remove_item the item removed and its anchor or, when nothing was there, what
\* kind of coordinate was addressed
Call(op, item, slot, target, result) ==
    [op |-> op, item |-> item, slot |-> slot, target |-> target, result |-> result]

\* the cells an occupant anchored at slot covers beyond its anchor
TrailingCells(slot, item) ==
    {Slot(slot.row, slot.shelf, z) : z \in (slot.zone + 1) .. (slot.zone + get_item_size(item) - 1)}

\* what a coordinate handed to remove_item addresses
Target(slot, inv) ==
    IF slot \in DOMAIN inv THEN "anchor"
    ELSE IF slot \notin GridSlots THEN "outside"
    ELSE IF \E a \in DOMAIN inv : slot \in TrailingCells(a, inv[a]) THEN "trailing"
    ELSE "empty"

\* Manager::is_allowed_by_filters
is_allowed_by_filters(chain, item, inv) ==
    \A i \in DOMAIN chain : filter(chain[i], item, inv)

\* Manager::_insert_item: entry(slot).or_insert(item) keeps an existing occupant
_insert_item(inv, slot, item) ==
    IF slot \in DOMAIN inv THEN inv ELSE Put(inv, slot, update_timestamp(item))

\* _remove_item that resolves a trailing cell to the occupant covering it
_remove_item_covering(inv, slot) ==
    LET hit == {a \in DOMAIN inv : a = slot \/ slot \in TrailingCells(a, inv[a])}
    IN  [inventory |-> Restrict(inv, (DOMAIN inv) \ hit),
         item |-> IF hit = {} THEN None ELSE Some(inv[CHOOSE a \in hit : TRUE])]

\* Manager::_remove_item: HashMap::remove, the map left and the item taken out
_remove_item(inv, slot) ==
    [inventory |-> Restrict(inv, (DOMAIN inv) \ {slot}),
     item |-> IF slot \in DOMAIN inv THEN Some(inv[slot]) ELSE None]

\* Manager::_update_maps_on_insert, map_ids
map_ids_on_insert(m, item) ==
    Put(m, item.id, (IF item.id \in DOMAIN m THEN m[item.id] ELSE 0) + 1)

\* Manager::_update_maps_on_insert, map_names
map_names_on_insert(m, item) ==
    Put(m, item.name, (IF item.name \in DOMAIN m THEN m[item.name] ELSE 0) + 1)

\* Manager::_update_maps_on_insert, map_slots
map_slots_on_insert(m, slot, item) ==
    Put(m, item.id, Append(IF item.id \in DOMAIN m THEN m[item.id] ELSE << >>, slot))

\* Manager::_update_maps_on_insert, map_dates (Fragile items only)
map_dates_on_insert(m, slot, item) ==
    IF item.quality.kind = "Fragile"
    THEN LET d == item.quality.expiration_date
         IN  Put(m, d, Append(IF d \in DOMAIN m THEN m[d] ELSE << >>, slot))
    ELSE m

\* _update_maps_on_remove, map_ids, dropping the id's entry instead of
\* decrementing it
map_ids_on_remove_drop_entry(m, item) ==
    Restrict(m, (DOMAIN m) \ {item.id})

\* Manager::_update_maps_on_remove, map_ids: decrement, then retain non-zero
map_ids_on_remove(m, item) ==
    LET dec == IF item.id \in DOMAIN m THEN [m EXCEPT ![item.id] = @ - 1] ELSE m
    IN  Restrict(dec, {k \in DOMAIN dec : dec[k] # 0})

\* Manager::_update_maps_on_remove, map_names
map_names_on_remove(m, item) ==
    LET dec == IF item.name \in DOMAIN m THEN [m EXCEPT ![item.name] = @ - 1] ELSE m
    IN  Restrict(dec, {k \in DOMAIN dec : dec[k] # 0})

\* Manager::_update_maps_on_remove, map_slots: drop the slot, then retain non-empty
map_slots_on_remove(m, slot, item) ==
    LET cut == IF item.id \in DOMAIN m THEN [m EXCEPT ![item.id] = Retain(@, slot)] ELSE m
    IN  Restrict(cut, {k \in DOMAIN cut : cut[k] # << >>})

\* Manager::_update_maps_on_remove, map_dates
map_dates_on_remove(m, slot, item) ==
    LET d == item.quality.expiration_date
        cut == IF item.quality.kind = "Fragile" /\ d \in DOMAIN m
               THEN [m EXCEPT ![d] = Retain(@, slot)] ELSE m
    IN  Restrict(cut, {k \in DOMAIN cut : cut[k] # << >>})

(***************************************************************************)
(* Manager: queries                                                        *)
(***************************************************************************)
\* get_item that resolves a trailing cell to the occupant covering it
get_item_covering(slot) ==
    LET hit == {a \in DOMAIN inventory : a = slot \/ slot \in TrailingCells(a, inventory[a])}
    IN  IF hit = {} THEN None ELSE Some(inventory[CHOOSE a \in hit : TRUE])

\* Manager::get_item
get_item(slot) == IF slot \in DOMAIN inventory THEN Some(inventory[slot]) ELSE None

\* Manager::count_id
count_id(id) == IF id \in DOMAIN map_ids THEN map_ids[id] ELSE 0

\* Manager::count_name
count_name(name) == IF name \in DOMAIN map_names THEN map_names[name] ELSE 0

\* Manager::find_id
find_id(id) == IF id \in DOMAIN map_slots THEN Some(map_slots[id]) ELSE None

\* map_dates.range(..=date).flat_map(|(_, ids)| ids): the slots of the keys
\* <= date, keys ascending
RECURSIVE range_slots(_)
range_slots(keys) ==
    IF keys = {} THEN << >>
    ELSE LET k == CHOOSE x \in keys : \A y \in keys : x <= y
         IN  map_dates[k] \o range_slots(keys \ {k})

\* find_expired with the range query excluding its upper end (..date)
find_expired_exclusive(date) ==
    LET slots == range_slots({k \in DOMAIN map_dates : k < date})
        found == SelectSeq(slots, LAMBDA s : get_item(s) # None)
    IN  [n \in DOMAIN found |-> unwrap(get_item(found[n]))]

\* Manager::find_expired: each slot resolved through get_item, None dropped
find_expired(date) ==
    LET slots == range_slots({k \in DOMAIN map_dates : k <= date})
        found == SelectSeq(slots, LAMBDA s : get_item(s) # None)
    IN  [n \in DOMAIN found |-> unwrap(get_item(found[n]))]

\* the names of the input items in the order of str::cmp
NamesAscending == <<"A", "B">>

\* the place of each name in that order
name_place ==
    [n \in {NamesAscending[i] : i \in DOMAIN NamesAscending} |->
        CHOOSE i \in DOMAIN NamesAscending : NamesAscending[i] = n]

\* a.name.cmp(&b.name) = Less
name_less(a, b) == name_place[a.name] < name_place[b.name]

\* the occupied anchors as a sequence, in grid order
AnchorSeq == SelectSeq(RoundRobinScans[Slot(0, 0, 0)], LAMBDA s : s \in DOMAIN inventory)

\* the orders in which inventory.values() may yield the occupants: HashMap
\* iteration order is unspecified
IterationOrders ==
    LET anchors == AnchorSeq
    IN  {[i \in DOMAIN anchors |-> anchors[p[i]]] : p \in Permutations(DOMAIN anchors)}

\* inventory.values().collect() for one iteration order
values(order) == [i \in DOMAIN order |-> inventory[order[i]]]

\* items.sort_by(|a, b| a.name.cmp(&b.name)) left undone
sort_by_name_unsorted(items) == items

\* items.sort_by(|a, b| a.name.cmp(&b.name)): a stable sort, every element
\* goes behind the smaller ones and the equal ones that came before it
sort_by_name(items) ==
    LET before(i) ==
            {j \in DOMAIN items :
                \/ name_less(items[j], items[i])
                \/ ~name_less(items[i], items[j]) /\ j < i}
        place == [i \in DOMAIN items |-> Cardinality(before(i)) + 1]
    IN  [k \in DOMAIN items |-> items[CHOOSE i \in DOMAIN items : place[i] = k]]

\* Manager::ord_by_name for one iteration order of the occupancy map
ord_by_name(order) == sort_by_name(values(order))

(***************************************************************************)
(* Manager: construction and operations                                    *)
(***************************************************************************)
\* Manager::new with either strategy and one of the filter chains
Init ==
    /\ inventory = EmptyMap
    /\ allocator \in {RoundRobinDefault, GreedyDefault}
    /\ filters \in FilterChains
    /\ map_ids = EmptyMap
    /\ map_names = EmptyMap
    /\ map_slots = EmptyMap
    /\ map_dates = EmptyMap
    /\ last = Call("new", NoItem, None, "none", "Ok")
    /\ inserts = 0

\* insert_item with _update_maps_on_insert called before the allocation
\* result is examined
InsertItem_maps_first ==
    \E item \in Items :
        IF ~is_allowed_by_filters(filters, item, inventory)
        THEN /\ last' = Call("insert_item", item, None, "none", "FilteredItem")
             /\ UNCHANGED <<ledger, allocator, filters, inserts>>
        ELSE LET r == alloc(allocator, item, inventory)
             IN  /\ allocator' = [allocator EXCEPT !.prev_alloc = r.prev_alloc]
                 /\ map_ids' = map_ids_on_insert(map_ids, item)
                 /\ map_names' = map_names_on_insert(map_names, item)
                 /\ IF r.slot = None
                    THEN /\ last' = Call("insert_item", item, None, "none", "FailedAllocation")
                         /\ UNCHANGED <<inventory, map_slots, map_dates, filters, inserts>>
                    ELSE /\ inserts < MaxInserts
                         /\ map_slots' = map_slots_on_insert(map_slots, unwrap(r.slot), item)
                         /\ map_dates' = map_dates_on_insert(map_dates, unwrap(r.slot), item)
                         /\ inventory' = _insert_item(inventory, unwrap(r.slot), item)
                         /\ last' = Call("insert_item", item, r.slot, "none", "Ok")
                         /\ inserts' = inserts + 1
                         /\ UNCHANGED filters

\* insert_item with the allocation strategy invoked before the filter chain
\* is consulted
InsertItem_alloc_first ==
    \E item \in Items :
        LET r == alloc(allocator, item, inventory)
        IN  /\ allocator' = [allocator EXCEPT !.prev_alloc = r.prev_alloc]
            /\ IF ~is_allowed_by_filters(filters, item, inventory)
               THEN /\ last' = Call("insert_item", item, None, "none", "FilteredItem")
                    /\ UNCHANGED <<ledger, filters, inserts>>
               ELSE IF r.slot = None
                    THEN /\ last' = Call("insert_item", item, None, "none", "FailedAllocation")
                         /\ UNCHANGED <<ledger, filters, inserts>>
                    ELSE /\ inserts < MaxInserts
                         /\ map_ids' = map_ids_on_insert(map_ids, item)
                         /\ map_names' = map_names_on_insert(map_names, item)
                         /\ map_slots' = map_slots_on_insert(map_slots, unwrap(r.slot), item)
                         /\ map_dates' = map_dates_on_insert(map_dates, unwrap(r.slot), item)
                         /\ inventory' = _insert_item(inventory, unwrap(r.slot), item)
                         /\ last' = Call("insert_item", item, r.slot, "none", "Ok")
                         /\ inserts' = inserts + 1
                         /\ UNCHANGED filters

\* Manager::insert_item
InsertItem ==
    \E item \in Items :
        IF ~is_allowed_by_filters(filters, item, inventory)
        THEN /\ last' = Call("insert_item", item, None, "none", "FilteredItem")
             /\ UNCHANGED <<ledger, allocator, filters, inserts>>
        ELSE LET r == alloc(allocator, item, inventory)
             IN  /\ allocator' = [allocator EXCEPT !.prev_alloc = r.prev_alloc]
                 /\ IF r.slot = None
                    THEN /\ last' = Call("insert_item", item, None, "none", "FailedAllocation")
                         /\ UNCHANGED <<ledger, filters, inserts>>
                    ELSE /\ inserts < MaxInserts
                         /\ map_ids' = map_ids_on_insert(map_ids, item)
                         /\ map_names' = map_names_on_insert(map_names, item)
                         /\ map_slots' = map_slots_on_insert(map_slots, unwrap(r.slot), item)
                         /\ map_dates' = map_dates_on_insert(map_dates, unwrap(r.slot), item)
                         /\ inventory' = _insert_item(inventory, unwrap(r.slot), item)
                         /\ last' = Call("insert_item", item, r.slot, "none", "Ok")
                         /\ inserts' = inserts + 1
                         /\ UNCHANGED filters

\* remove_item that also resets the allocator's prev_alloc
RemoveItem_resets_cursor ==
    \E slot \in Coords :
        LET r == _remove_item(inventory, slot)
            target == Target(slot, inventory)
        IN  /\ inventory' = r.inventory
            /\ IF r.item # None
               THEN /\ map_ids' = map_ids_on_remove(map_ids, unwrap(r.item))
                    /\ map_names' = map_names_on_remove(map_names, unwrap(r.item))
                    /\ map_slots' = map_slots_on_remove(map_slots, slot, unwrap(r.item))
                    /\ map_dates' = map_dates_on_remove(map_dates, slot, unwrap(r.item))
                    /\ last' = Call("remove_item", unwrap(r.item), Some(slot), target, "Removed")
               ELSE /\ UNCHANGED <<map_ids, map_names, map_slots, map_dates>>
                    /\ last' = Call("remove_item", NoItem, None, target, "Absent")
            /\ allocator' = [allocator EXCEPT !.prev_alloc = None]
            /\ UNCHANGED <<filters, inserts>>

\* Manager::remove_item
RemoveItem ==
    \E slot \in Coords :
        LET r == _remove_item(inventory, slot)
            target == Target(slot, inventory)
        IN  /\ inventory' = r.inventory
            /\ IF r.item # None
               THEN /\ map_ids' = map_ids_on_remove(map_ids, unwrap(r.item))
                    /\ map_names' = map_names_on_remove(map_names, unwrap(r.item))
                    /\ map_slots' = map_slots_on_remove(map_slots, slot, unwrap(r.item))
                    /\ map_dates' = map_dates_on_remove(map_dates, slot, unwrap(r.item))
                    /\ last' = Call("remove_item", unwrap(r.item), Some(slot), target, "Removed")
               ELSE /\ UNCHANGED <<map_ids, map_names, map_slots, map_dates>>
                    /\ last' = Call("remove_item", NoItem, None, target, "Absent")
            /\ UNCHANGED <<allocator, filters, inserts>>

Next == InsertItem \/ RemoveItem

Spec == Init /\ [][Next]_vars

(***************************************************************************)
(* The ledger with its filters reconfigured at run time: set_filters is    *)
(* callable between any two calls of insert_item.                          *)
(***************************************************************************)
\* the chains handed to set_filters, by name: the chains of FilterChains
ChainNamed ==
    [no_filters |-> << >>,
     test_filters |-> << LimitOverSized(1), LimitItemQuantity(0, 3),
                         BanQuality(OverSized(MAX_INVENTORY_SIZE)) >>]

\* set_filters that pushes the new filters behind the ones in force
SetFilters_merging ==
    \E name \in DOMAIN ChainNamed :
        /\ filters' = filters \o ChainNamed[name]
        /\ last' = Call("set_filters", NoItem, None, name, "Ok")
        /\ UNCHANGED <<ledger, allocator, inserts>>

\* Manager::set_filters: self.filters = filters; the call record names the
\* chain handed over
SetFilters ==
    \E name \in DOMAIN ChainNamed :
        /\ filters' = ChainNamed[name]
        /\ last' = Call("set_filters", NoItem, None, name, "Ok")
        /\ UNCHANGED <<ledger, allocator, inserts>>

\* a ledger that is filled and reconfigured: insert_item and set_filters in
\* any order, from Manager::new with either strategy and either chain
NextFilters == InsertItem \/ SetFilters

SpecFilters == Init /\ [][NextFilters]_vars

(***************************************************************************)
(* AllocStrategy::is_slot_available on its own: a trait method that takes  *)
(* any &HashMap<Slot, Item>.  Here inventory is the map handed to it, no   *)
(* ledger is involved and the ledger's indices stay empty.                 *)
(***************************************************************************)
\* the row and shelf the maps are built on in full, and one coordinate on
\* another shelf and one on another row
AvailLine == {Slot(0, 0, z) : z \in Axis}

AvailCells == AvailLine \cup {Slot(0, 1, 0), Slot(1, 0, 1)}

\* the items the maps hold: one of every footprint size that fits the grid,
\* 0 included (a Normal item has size 1)
AvailOccupants ==
    {update_timestamp(Item(0, "A", 1, Normal))}
    \cup {update_timestamp(Item(1, "B", 1, OverSized(n))) :
             n \in {0} \cup (2 .. MAX_INVENTORY_SIZE)}

\* the item the coordinates off the line hold when they are occupied
AvailNeighbour == update_timestamp(Item(1, "B", 1, OverSized(2)))

\* the cells an item anchored at slot occupies
Cells(slot, item) ==
    {Slot(slot.row, slot.shelf, z) : z \in slot.zone .. (slot.zone + get_item_size(item) - 1)}

\* footprint legality of a map: anchors in the grid, footprints inside the
\* grid and pairwise disjoint
FootprintLegal(inv) ==
    \A a \in DOMAIN inv :
        /\ a \in GridSlots
        /\ \A c \in Cells(a, inv[a]) :
              /\ c.zone < MAX_INVENTORY_SIZE
              /\ \A b \in (DOMAIN inv) \ {a} : c \notin Cells(b, inv[b])

\* every footprint-legal map over AvailCells
AvailInventories ==
    LET filled == {f \in [AvailCells -> AvailOccupants \cup {NoItem}] :
                      \A c \in AvailCells \ AvailLine : f[c] \in {NoItem, AvailNeighbour}}
        maps == {Restrict(f, {c \in AvailCells : f[c] # NoItem}) : f \in filled}
    IN  {inv \in maps : FootprintLegal(inv)}

InitAvail ==
    /\ inventory \in AvailInventories
    /\ allocator = RoundRobinDefault
    /\ filters = << >>
    /\ map_ids = EmptyMap
    /\ map_names = EmptyMap
    /\ map_slots = EmptyMap
    /\ map_dates = EmptyMap
    /\ last = Call("new", NoItem, None, "none", "Ok")
    /\ inserts = 0

\* a call of is_slot_available(slot, item, inventory) and what it returns
IsSlotAvailable ==
    \E slot \in GridSlots, item \in Items :
        /\ last' = Call("is_slot_available", item, Some(slot), "none",
                        IF is_slot_available(slot, item, inventory) THEN "true" ELSE "false")
        /\ UNCHANGED <<ledger, allocator, filters, inserts>>

NextAvail == IsSlotAvailable

SpecAvail == InitAvail /\ [][NextAvail]_vars

(***************************************************************************)
(* Vocabulary of the properties                                            *)
(***************************************************************************)
IsRoundRobin == allocator.kind = "RoundRobin"

IsGreedy == allocator.kind = "Greedy"

\* the anchors whose occupant has the id / the name / is the item
AnchorsOfId(id) == {s \in DOMAIN inventory : inventory[s].id = id}

AnchorsOfName(name) == {s \in DOMAIN inventory : inventory[s].name = name}

AnchorsOfItem(item) == {s \in DOMAIN inventory : inventory[s] = item}

\* the elements of a sequence
Range(seq) == {seq[i] : i \in DOMAIN seq}

\* how often x occurs in a sequence
Occurrences(seq, x) == Cardinality({i \in DOMAIN seq : seq[i] = x})

\* the cells an occupant anchored at slot occupies
Footprint(slot, item) ==
    {Slot(slot.row, slot.shelf, z) : z \in slot.zone .. (slot.zone + get_item_size(item) - 1)}

\* lexicographic (row, shelf, zone) order
LexLess(a, b) ==
    \/ a.row < b.row
    \/ a.row = b.row /\ a.shelf < b.shelf
    \/ a.row = b.row /\ a.shelf = b.shelf /\ a.zone < b.zone

LexLeq(a, b) == a = b \/ LexLess(a, b)

\* the coordinates that pass the Availability Predicate and the category
\* constraint for an item in an occupancy
LegalAnchors(item, inv) ==
    {c \in GridSlots : is_slot_available(c, item, inv) /\ quality_accepts(c, item)}

(***************************************************************************)
(* C1: after any sequence of insert_item and remove_item calls, count_id   *)
(* and count_name equal the number of occupants with that id / name and    *)
(* find_id holds exactly the anchors of the occupants with that id, each   *)
(* once.  Stated as in the claim; an OverSized item of span 0 breaks it.   *)
(***************************************************************************)
C1_IndexOccupancyEquivalence ==
    /\ \A id \in ItemIds :
          LET anchors == AnchorsOfId(id)
          IN  /\ count_id(id) = Cardinality(anchors)
              /\ IF find_id(id) = None THEN anchors = {}
                 ELSE /\ Range(unwrap(find_id(id))) = anchors
                      /\ Len(unwrap(find_id(id))) = Cardinality(anchors)
    /\ \A name \in ItemNames :
          count_name(name) = Cardinality(AnchorsOfName(name))

(***************************************************************************)
(* C2: for every time T, find_expired(T) returns exactly the Fragile       *)
(* occupants whose expiration is <= T, each once, and nothing else.        *)
(***************************************************************************)
C2_FindExpiredExact ==
    \A T \in Times :
        LET result == find_expired(T)
            Expired(it) == it.quality.kind = "Fragile" /\ it.quality.expiration_date <= T
        IN  \A it \in Range(result) \cup {inventory[s] : s \in DOMAIN inventory} :
                Occurrences(result, it) =
                    IF Expired(it)
                    THEN Cardinality(AnchorsOfItem(it))
                    ELSE 0

\* a Fragile occupant on the boundary (expiration = T) is returned while a
\* later-expiring Fragile occupant and a non-Fragile occupant are held back
C2_Witness ==
    /\ \E s1, s2, s3 \in DOMAIN inventory :
          /\ inventory[s1].quality.kind = "Fragile"
          /\ inventory[s1].quality.expiration_date = 1
          /\ inventory[s2].quality.kind = "Fragile"
          /\ inventory[s2].quality.expiration_date = 2
          /\ inventory[s3].quality.kind # "Fragile"
          /\ Len(find_expired(1)) = 1
          /\ find_expired(1)[1] = inventory[s1]

(***************************************************************************)
(* C3: an insert_item call that returns an error (FilteredItem or          *)
(* FailedAllocation) leaves the occupancy map and the four indices as they *)
(* were before the call.                                                   *)
(***************************************************************************)
C3_AtomicFailure ==
    [][(/\ last'.op = "insert_item"
        /\ last'.result \in {"FilteredItem", "FailedAllocation"})
       => UNCHANGED ledger]_vars

\* a filtered ledger with occupants whose allocator ran and found no slot
C3_Witness ==
    /\ last.op = "insert_item"
    /\ last.result = "FailedAllocation"
    /\ filters # << >>
    /\ Cardinality(DOMAIN inventory) >= 2
    /\ DOMAIN map_dates # {}

(***************************************************************************)
(* C4: every occupied anchor lies in the grid, and the zones z .. z+s-1 of *)
(* an occupant with footprint size s anchored at (r, sh, z) are all below  *)
(* MAX_INVENTORY_SIZE and in no other occupant's footprint.                *)
(***************************************************************************)
C4_FootprintLegality ==
    \A a \in DOMAIN inventory :
        /\ a \in GridSlots
        /\ \A c \in Footprint(a, inventory[a]) :
              /\ c.zone < MAX_INVENTORY_SIZE
              /\ \A b \in (DOMAIN inventory) \ {a} : c \notin Footprint(b, inventory[b])

\* an occupant spanning two zones next to another occupant of its row and shelf
C4_Witness ==
    \E a, b \in DOMAIN inventory :
        /\ a # b
        /\ a.row = b.row /\ a.shelf = b.shelf
        /\ get_item_size(inventory[a]) = 2
        /\ b.zone = a.zone + 2

\* the legal anchors of an item that lie lexicographically at or after start
LegalFrom(start, item, inv) == {c \in LegalAnchors(item, inv) : LexLeq(start, c)}

\* the lexicographically smallest slot of a non-empty set
LexMin(slots) == CHOOSE c \in slots : \A d \in slots : LexLeq(c, d)

(***************************************************************************)
(* C5: a successful Round-Robin alloc returns the first coordinate, in     *)
(* lexicographic order from the last successful anchor (the origin when    *)
(* there is none), that passes the Availability Predicate and the category *)
(* constraint.  Stated as in the claim; the scan of alloc breaks it.       *)
(***************************************************************************)
C5_RoundRobinFirstLexicographic ==
    [][(/\ IsRoundRobin
        /\ last'.op = "insert_item"
        /\ last'.result = "Ok")
       => LET legal == LegalFrom(get_start_pos(allocator.prev_alloc), last'.item, inventory)
          IN  /\ legal # {}
              /\ last'.slot = Some(LexMin(legal))]_vars

(***************************************************************************)
(* C6: a Round-Robin insert_item returns FailedAllocation only if no       *)
(* coordinate lexicographically at or after the cursor passes the          *)
(* Availability Predicate and the category constraint.  Stated as in the   *)
(* claim; the scan of alloc breaks it.                                     *)
(***************************************************************************)
C6_RoundRobinFailsOnlyWhenExhausted ==
    [][(/\ IsRoundRobin
        /\ last'.op = "insert_item"
        /\ last'.result = "FailedAllocation")
       => LegalFrom(get_start_pos(allocator.prev_alloc), last'.item, inventory) = {}]_vars

(***************************************************************************)
(* C7: a successful Round-Robin allocation made while prev_alloc still     *)
(* holds the anchor of the previous successful allocation (no failed       *)
(* allocation since) returns a coordinate that is not lexicographically    *)
(* smaller than that anchor.                                               *)
(***************************************************************************)
C7_RoundRobinMonotonic ==
    [][(/\ IsRoundRobin
        /\ allocator.prev_alloc # None
        /\ last'.op = "insert_item"
        /\ last'.result = "Ok")
       => LexLeq(unwrap(allocator.prev_alloc), unwrap(last'.slot))]_vars

\* two successful allocations and nothing removed, the second strictly after
\* the first
C7_Witness ==
    /\ IsRoundRobin
    /\ last.op = "insert_item" /\ last.result = "Ok"
    /\ inserts = 2
    /\ Cardinality(DOMAIN inventory) = 2
    /\ \E a \in DOMAIN inventory : LexLess(a, unwrap(last.slot))

(***************************************************************************)
(* C8: after a successful Round-Robin alloc prev_alloc is the anchor       *)
(* returned, after a failed one it is None; an alloc that starts with      *)
(* prev_alloc = None scans from the origin and returns the                 *)
(* lexicographically smallest legal anchor of the whole grid.              *)
(***************************************************************************)
C8_RoundRobinCursor ==
    [][IsRoundRobin =>
         /\ (last'.op = "insert_item" /\ last'.result = "Ok")
                => allocator'.prev_alloc = last'.slot
         /\ (last'.op = "insert_item" /\ last'.result = "FailedAllocation")
                => allocator'.prev_alloc = None
         /\ (/\ allocator.prev_alloc = None
             /\ last'.op = "insert_item"
             /\ last'.result \in {"Ok", "FailedAllocation"})
                => LET legal == LegalAnchors(last'.item, inventory)
                   IN  IF legal = {} THEN last'.result = "FailedAllocation"
                       ELSE last'.slot = Some(LexMin(legal))]_vars

\* an anchor returned that lies before an occupant placed earlier: the cursor
\* was past it, so a failed alloc reset the cursor in between
C8_Witness ==
    /\ IsRoundRobin
    /\ last.op = "insert_item" /\ last.result = "Ok"
    /\ allocator.prev_alloc = last.slot
    /\ \E t \in DOMAIN inventory : LexLess(unwrap(last.slot), t)

(***************************************************************************)
(* C9: for every item and every occupancy a Greedy ledger reaches, Greedy   *)
(* alloc returns a coordinate that passes the Availability Predicate and   *)
(* the category constraint and has the smallest Manhattan distance among   *)
(* those that do; it returns None only when no coordinate passes both.     *)
(***************************************************************************)
C9_GreedyMinimality ==
    IsGreedy =>
        \A item \in Items :
            LET found == alloc(allocator, item, inventory).slot
                legal == LegalAnchors(item, inventory)
            IN  IF found = None THEN legal = {}
                ELSE /\ unwrap(found) \in legal
                     /\ \A c \in legal : distance(unwrap(found)) <= distance(c)

\* a Greedy insert placed at distance 2 or more
C9_Witness ==
    /\ IsGreedy
    /\ last.op = "insert_item" /\ last.result = "Ok"
    /\ distance(unwrap(last.slot)) >= 2

(***************************************************************************)
(* C10: remove_item on a coordinate that is not an occupied anchor (an     *)
(* empty cell, a trailing cell of an over-sized occupant, a coordinate     *)
(* outside the grid) reports nothing removed and leaves the occupancy map, *)
(* the four indices and the allocator unchanged.                           *)
(***************************************************************************)
C10_RemoveAbsentIsNoOp ==
    [][(/\ last'.op = "remove_item"
        /\ last'.target \in {"empty", "trailing", "outside"})
       => /\ last'.result = "Absent"
          /\ UNCHANGED <<ledger, allocator>>]_vars

\* remove_item addressed the trailing cell of an over-sized occupant
C10_Witness ==
    /\ last.op = "remove_item"
    /\ last.target = "trailing"
    /\ last.result = "Absent"
    /\ allocator.prev_alloc # None

\* the chain with its filters in another order
Reordered(chain, p) == [i \in DOMAIN chain |-> chain[p[i]]]

(***************************************************************************)
(* C11: insert_item returns FilteredItem exactly when at least one filter  *)
(* of the chain returns false for the item and the current occupancy, in   *)
(* whatever order the filters are registered; a filtered call does not     *)
(* invoke the allocator, so prev_alloc keeps its value.                    *)
(***************************************************************************)
C11_FilteredExactlyWhenSomeFilterRejects ==
    [][last'.op = "insert_item" =>
         LET rejected == \E i \in DOMAIN filters : ~filter(filters[i], last'.item, inventory)
         IN  /\ (last'.result = "FilteredItem") <=> rejected
             /\ \A p \in Permutations(DOMAIN filters) :
                    is_allowed_by_filters(Reordered(filters, p), last'.item, inventory)
                        <=> ~rejected
             /\ (last'.result = "FilteredItem") => UNCHANGED <<allocator, ledger>>]_vars

\* a Round-Robin ledger whose cursor is set rejects by filter an item that no
\* coordinate could take: the cursor is still set
C11_Witness ==
    /\ IsRoundRobin
    /\ last.op = "insert_item"
    /\ last.result = "FilteredItem"
    /\ allocator.prev_alloc # None
    /\ alloc(allocator, last.item, inventory).slot = None

\* the anchors of the OverSized occupants
OverSizedAnchors == {s \in DOMAIN inventory : inventory[s].quality.kind = "OverSized"}

(***************************************************************************)
(* C12: with LimitOverSized(max) in the chain since construction, an       *)
(* OverSized candidate passes that filter iff fewer than max occupants are *)
(* OverSized, Normal and Fragile candidates always pass it, the number of  *)
(* OverSized occupants never exceeds max, and right after an OverSized     *)
(* occupant is removed an OverSized candidate passes the filter again.     *)
(***************************************************************************)
C12_LimitOverSizedCap ==
    \A i \in DOMAIN filters :
        filters[i].kind = "LimitOverSized" =>
            LET f == filters[i]
                count == Cardinality(OverSizedAnchors)
            IN  /\ \A item \in Items :
                      filter(f, item, inventory)
                          <=> (item.quality.kind = "OverSized" => count < f.max_allowed)
                /\ count <= f.max_allowed
                /\ (/\ last.op = "remove_item"
                    /\ last.result = "Removed"
                    /\ last.item.quality.kind = "OverSized")
                       => \A item \in Items :
                              item.quality.kind = "OverSized" => filter(f, item, inventory)

\* under the cap, the OverSized occupant has just been removed while another
\* occupant stays, and the ledger had been at the cap
C12_Witness ==
    /\ \E i \in DOMAIN filters : filters[i].kind = "LimitOverSized"
    /\ last.op = "remove_item"
    /\ last.result = "Removed"
    /\ last.item.quality.kind = "OverSized"
    /\ get_item_size(last.item) = 2
    /\ OverSizedAnchors = {}
    /\ DOMAIN inventory # {}

\* the total quantity stored under an id
StoredQuantity(id) == SumQuantity(inventory, AnchorsOfId(id))

(***************************************************************************)
(* C13: with LimitItemQuantity(id, max) in the chain since construction, a *)
(* candidate with that id passes the filter iff the quantity stored under  *)
(* the id plus the candidate's quantity is <= max, candidates of other ids *)
(* always pass, and the quantity stored under the id never exceeds max.    *)
(***************************************************************************)
C13_LimitItemQuantityCap ==
    \A i \in DOMAIN filters :
        filters[i].kind = "LimitItemQuantity" =>
            LET f == filters[i]
            IN  /\ \A item \in Items :
                      filter(f, item, inventory)
                          <=> \/ item.id # f.id
                              \/ StoredQuantity(f.id) + item.quantity <= f.max_allowed
                /\ StoredQuantity(f.id) <= f.max_allowed

\* an insert of the capped id that reached the maximum exactly, made of
\* occupants with different quantities
C13_Witness ==
    /\ \E i \in DOMAIN filters :
          /\ filters[i].kind = "LimitItemQuantity"
          /\ filters[i].id = last.item.id
          /\ StoredQuantity(filters[i].id) = filters[i].max_allowed
    /\ last.op = "insert_item"
    /\ last.result = "Ok"
    /\ \E a, b \in AnchorsOfId(last.item.id) : inventory[a].quantity # inventory[b].quantity

(***************************************************************************)
(* C14: with BanQuality(q) in the chain since construction, a candidate is *)
(* rejected by that filter iff its quality equals q, payload included (a   *)
(* ban of OverSized(N) lets OverSized(k), k # N, Normal and Fragile pass), *)
(* and no occupant ever has quality q.                                     *)
(***************************************************************************)
C14_BanQualityExact ==
    \A i \in DOMAIN filters :
        filters[i].kind = "BanQuality" =>
            LET f == filters[i]
            IN  /\ \A item \in Items :
                      ~filter(f, item, inventory) <=> item.quality = f.quality
                /\ \A s \in DOMAIN inventory : inventory[s].quality # f.quality

\* the banned span was rejected by the ban alone: no occupant is OverSized, so
\* the cap on OverSized occupants let the candidate pass
C14_Witness ==
    /\ \E i \in DOMAIN filters :
          /\ filters[i].kind = "BanQuality"
          /\ filters[i].quality = last.item.quality
    /\ last.op = "insert_item"
    /\ last.result = "FilteredItem"
    /\ OverSizedAnchors = {}
    /\ DOMAIN inventory # {}

\* the available coordinates of a Fragile item within its rows
FragileAnchors(item, inv) ==
    {c \in GridSlots : is_slot_available(c, item, inv) /\ c.row <= item.quality.max_row}

\* every Fragile occupant sits at a row within its max_row, and neither the
\* ledger's strategy nor Greedy finds a slot for a Fragile item that has no
\* available coordinate within its rows, nor one outside of them
C15_FragileRows ==
    /\ \A s \in DOMAIN inventory :
          inventory[s].quality.kind = "Fragile" => s.row <= inventory[s].quality.max_row
    /\ \A item \in Items :
          item.quality.kind = "Fragile" =>
              \A found \in {alloc(allocator, item, inventory).slot,
                            GreedyAlloc(None, item, inventory).slot} :
                  /\ FragileAnchors(item, inventory) = {} => found = None
                  /\ found # None => unwrap(found).row <= item.quality.max_row

(***************************************************************************)
(* C15: under either strategy every Fragile occupant sits at an anchor     *)
(* whose row is <= its max_row, and insert_item of a Fragile item that the *)
(* filters pass and that has no available coordinate with row <= max_row   *)
(* returns FailedAllocation, available coordinates in higher rows or not.  *)
(***************************************************************************)
C15_FragileRowBound ==
    /\ []C15_FragileRows
    /\ [][(/\ last'.op = "insert_item"
           /\ last'.item.quality.kind = "Fragile"
           /\ last'.result # "FilteredItem"
           /\ FragileAnchors(last'.item, inventory) = {})
          => /\ last'.result = "FailedAllocation"
             /\ UNCHANGED ledger]_vars

\* a Fragile item was refused although a higher row has an available
\* coordinate; Greedy refuses it on this occupancy as well
C15_Witness ==
    /\ last.op = "insert_item"
    /\ last.result = "FailedAllocation"
    /\ last.item.quality.kind = "Fragile"
    /\ \E c \in GridSlots :
          /\ is_slot_available(c, last.item, inventory)
          /\ c.row > last.item.quality.max_row
    /\ FragileAnchors(last.item, inventory) = {}
    /\ GreedyAlloc(None, last.item, inventory).slot = None

\* no index holds a zero count or an empty list of slots
NoEmptyIndexEntry ==
    /\ \A id \in DOMAIN map_ids : map_ids[id] >= 1
    /\ \A name \in DOMAIN map_names : map_names[name] >= 1
    /\ \A id \in DOMAIN map_slots : map_slots[id] # << >>
    /\ \A d \in DOMAIN map_dates : map_dates[d] # << >>

(***************************************************************************)
(* C16: no index holds a zero count or an empty bucket (every count of     *)
(* map_ids and map_names is >= 1, every list of map_slots and map_dates is *)
(* non-empty), so find_id(id) is None, never an empty list, when no        *)
(* occupant has that id.  Stated as in the claim; the entries themselves   *)
(* are never empty, but an OverSized item of span 0 leaves find_id with a  *)
(* list for an id no occupant has.                                         *)
(***************************************************************************)
C16_NoEmptyBuckets ==
    /\ NoEmptyIndexEntry
    /\ \A id \in ItemIds : AnchorsOfId(id) = {} => find_id(id) = None

\* the input items whose span exceeds the grid
TooWide == {item \in Items : get_item_size(item) > MAX_INVENTORY_SIZE}

\* no coordinate is available to an item wider than the grid, and neither
\* strategy returns one
C17_NoSlotForTooWide ==
    \A item \in TooWide :
        /\ \A c \in GridSlots : ~is_slot_available(c, item, inventory)
        /\ alloc(allocator, item, inventory).slot = None
        /\ RoundRobinAlloc(None, item, inventory).slot = None
        /\ GreedyAlloc(None, item, inventory).slot = None

(***************************************************************************)
(* C17: insert_item of an OverSized item whose span is greater than        *)
(* MAX_INVENTORY_SIZE, when the filters pass it, returns FailedAllocation  *)
(* under either strategy in every reachable state, the empty grid          *)
(* included.                                                               *)
(***************************************************************************)
C17_TooWideFailsAllocation ==
    /\ []C17_NoSlotForTooWide
    /\ [][(/\ last'.op = "insert_item"
           /\ last'.item \in TooWide
           /\ last'.result # "FilteredItem")
          => /\ last'.result = "FailedAllocation"
             /\ UNCHANGED ledger]_vars

\* a Greedy ledger with the filters in force, emptied again after use,
\* refuses the item wider than the grid
C17_Witness ==
    /\ IsGreedy
    /\ filters # << >>
    /\ last.op = "insert_item"
    /\ last.result = "FailedAllocation"
    /\ last.item \in TooWide
    /\ DOMAIN inventory = {}
    /\ inserts >= 1

(***************************************************************************)
(* C18: whatever the iteration order of the occupancy map, ord_by_name     *)
(* returns a sequence that holds every occupant exactly once and nothing   *)
(* else, in non-decreasing order of name.                                  *)
(***************************************************************************)
C18_OrdByNameSortedPermutation ==
    \A order \in IterationOrders :
        LET result == ord_by_name(order)
        IN  /\ Len(result) = Cardinality(DOMAIN inventory)
            /\ \A it \in Range(result) \cup {inventory[s] : s \in DOMAIN inventory} :
                  Occurrences(result, it) = Cardinality(AnchorsOfItem(it))
            /\ \A i, j \in DOMAIN result :
                  i < j => ~name_less(result[j], result[i])

\* three occupants, two of them equal items, with a name that sorts after
\* theirs stored at the first anchor in grid order
C18_Witness ==
    /\ Cardinality(DOMAIN inventory) = 3
    /\ \E a, b \in DOMAIN inventory : a # b /\ inventory[a] = inventory[b]
    /\ \E c \in DOMAIN inventory : name_less(inventory[c], inventory[AnchorSeq[1]])
    /\ \E order \in IterationOrders : ord_by_name(order) # values(order)

\* the availability of a coordinate as the claim words it: the footprint ends
\* at or before the grid's end, holds no occupied anchor, and no occupant
\* anchored at a smaller zone of the row and shelf reaches into it
FootprintFree(c, item, inv) ==
    /\ c.zone + get_item_size(item) <= MAX_INVENTORY_SIZE
    /\ Cells(c, item) \cap DOMAIN inv = {}
    /\ ~\E a \in DOMAIN inv :
          /\ a.row = c.row /\ a.shelf = c.shelf
          /\ a.zone < c.zone
          /\ a.zone + get_item_size(inv[a]) > c.zone

\* the occupants of a coordinate's row and shelf
SameLine(c, inv) == Restrict(inv, {a \in DOMAIN inv : a.row = c.row /\ a.shelf = c.shelf})

(***************************************************************************)
(* C19: for every in-grid coordinate, every item (span 0 to                *)
(* MAX_INVENTORY_SIZE + 1) and every footprint-legal occupancy,            *)
(* is_slot_available returns true iff the candidate's footprint ends at or *)
(* before the grid's end, holds no occupied anchor and is not reached by   *)
(* an occupant anchored at a smaller zone of the same row and shelf;       *)
(* occupants of other rows or shelves do not change the result.            *)
(***************************************************************************)
C19_AvailabilityExact ==
    last.op = "is_slot_available" =>
        LET c == unwrap(last.slot)
        IN  /\ last.result = "true" <=> FootprintFree(c, last.item, inventory)
            /\ last.result = "true"
                   <=> is_slot_available(c, last.item, SameLine(c, inventory))

\* a call refused by the backward check alone although another row and shelf
\* are occupied too: a span-0 candidate on the second cell of a span-2
\* occupant, with the cell next to it available to the same candidate
C19_Witness ==
    /\ last.op = "is_slot_available"
    /\ last.result = "false"
    /\ get_item_size(last.item) = 0
    /\ unwrap(last.slot) = Slot(0, 0, 1)
    /\ Slot(0, 0, 0) \in DOMAIN inventory
    /\ get_item_size(inventory[Slot(0, 0, 0)]) = 2
    /\ is_slot_available(Slot(0, 0, 2), last.item, inventory)
    /\ Slot(0, 1, 0) \in DOMAIN inventory
    /\ Slot(1, 0, 1) \in DOMAIN inventory

(***************************************************************************)
(* C20: a successful insert_item adds exactly one occupant: the number of  *)
(* occupants grows by one, the anchor the strategy chose was unoccupied    *)
(* before the call and afterwards holds an item equal (id, name, quantity, *)
(* quality) to the inserted one, and every other anchor keeps its          *)
(* occupant, for every category and every span from 0 to                   *)
(* MAX_INVENTORY_SIZE.  Stated as in the claim; an OverSized item of span  *)
(* 0 breaks it.                                                            *)
(***************************************************************************)
C20_InsertAddsOneOccupant ==
    [][(/\ last'.op = "insert_item"
        /\ last'.result = "Ok")
       => LET slot == unwrap(last'.slot)
          IN  /\ Cardinality(DOMAIN inventory') = Cardinality(DOMAIN inventory) + 1
              /\ slot \notin DOMAIN inventory
              /\ slot \in DOMAIN inventory'
              /\ ItemEq(inventory'[slot], last'.item)
              /\ \A a \in (DOMAIN inventory') \ {slot} :
                    a \in DOMAIN inventory /\ inventory'[a] = inventory[a]
              /\ \A a \in (DOMAIN inventory) \ {slot} : a \in DOMAIN inventory']_vars

\* C20 for the items of span 1 and more
C20_ExceptSpanZero ==
    [][(/\ last'.op = "insert_item"
        /\ last'.result = "Ok"
        /\ get_item_size(last'.item) > 0)
       => LET slot == unwrap(last'.slot)
          IN  /\ Cardinality(DOMAIN inventory') = Cardinality(DOMAIN inventory) + 1
              /\ slot \notin DOMAIN inventory
              /\ slot \in DOMAIN inventory'
              /\ ItemEq(inventory'[slot], last'.item)
              /\ \A a \in (DOMAIN inventory') \ {slot} :
                    a \in DOMAIN inventory /\ inventory'[a] = inventory[a]
              /\ \A a \in (DOMAIN inventory) \ {slot} : a \in DOMAIN inventory']_vars

\* the slots an index lists under a key, none when the key is absent
SlotsUnder(m, k) == IF k \in DOMAIN m THEN Range(m[k]) ELSE {}

\* the count an index holds under a key, 0 when the key is absent, as
\* count_id and count_name report it
CountUnder(m, k) == IF k \in DOMAIN m THEN m[k] ELSE 0

\* the entry of an index under a key, None when the key is absent
EntryOf(m, k) == IF k \in DOMAIN m THEN Some(m[k]) ELSE None

(***************************************************************************)
(* C21: remove_item on an occupied anchor removes exactly that occupant:   *)
(* afterwards get_item at the anchor is None, every other anchor keeps its *)
(* occupant, the anchor is gone from the slots of the occupant's id and,   *)
(* for a Fragile occupant, of its expiration date, count_id and count_name *)
(* of its id and name are one less, and the entries of the other ids,      *)
(* names and expiration dates are unchanged.                               *)
(***************************************************************************)
C21_RemoveExactlyOne ==
    [][(/\ last'.op = "remove_item"
        /\ last'.target = "anchor")
       => LET slot == unwrap(last'.slot)
              item == last'.item
          IN  /\ last'.result = "Removed"
              /\ item = inventory[slot]
              /\ slot \notin DOMAIN inventory'
              /\ DOMAIN inventory' = (DOMAIN inventory) \ {slot}
              /\ \A a \in DOMAIN inventory' : inventory'[a] = inventory[a]
              /\ slot \notin SlotsUnder(map_slots', item.id)
              /\ item.quality.kind = "Fragile"
                     => slot \notin SlotsUnder(map_dates', item.quality.expiration_date)
              /\ CountUnder(map_ids', item.id) = CountUnder(map_ids, item.id) - 1
              /\ CountUnder(map_names', item.name) = CountUnder(map_names, item.name) - 1
              /\ \A id \in ItemIds \ {item.id} :
                     /\ EntryOf(map_ids', id) = EntryOf(map_ids, id)
                     /\ EntryOf(map_slots', id) = EntryOf(map_slots, id)
              /\ \A name \in ItemNames \ {item.name} :
                     EntryOf(map_names', name) = EntryOf(map_names, name)
              /\ \A d \in Dates :
                     (item.quality.kind # "Fragile" \/ d # item.quality.expiration_date)
                         => EntryOf(map_dates', d) = EntryOf(map_dates, d)
              /\ UNCHANGED <<allocator, filters>>]_vars

\* a Fragile occupant was removed while another occupant of its id and a
\* Fragile occupant of another expiration date stay
C21_Witness ==
    /\ last.op = "remove_item"
    /\ last.result = "Removed"
    /\ last.item.quality.kind = "Fragile"
    /\ count_id(last.item.id) = 1
    /\ AnchorsOfId(last.item.id) # {}
    /\ DOMAIN map_dates # {}
    /\ last.item.quality.expiration_date \notin DOMAIN map_dates

\* every layer holds the in-grid coordinates of its distance, each once, and
\* nothing else; the layers together hold every coordinate of the grid once
LayersExact ==
    /\ \A d \in Distances :
          \A c \in GridSlots \cup Range(DistanceLayers[d]) :
              Occurrences(DistanceLayers[d], c) =
                  IF c \in GridSlots /\ distance(c) = d THEN 1 ELSE 0
    /\ \A c \in GridSlots :
          Cardinality({d \in Distances : c \in Range(DistanceLayers[d])}) = 1
    /\ Len(GreedyScan) = MAX_INVENTORY_SIZE * MAX_INVENTORY_SIZE * MAX_INVENTORY_SIZE
    /\ \A c \in GridSlots : Occurrences(GreedyScan, c) = 1

(***************************************************************************)
(* C22: for every d in 0 .. 3 * (MAX_INVENTORY_SIZE - 1),                  *)
(* slots_by_distance(d) yields every in-grid coordinate whose components   *)
(* sum to d exactly once and no other coordinate, so the layers together   *)
(* hold each of the MAX_INVENTORY_SIZE^3 coordinates exactly once; the     *)
(* anchor a Greedy insert returns is an element of its distance's layer.   *)
(***************************************************************************)
C22_LayersEnumerateGrid ==
    /\ LayersExact
    /\ (IsGreedy /\ last.op = "insert_item" /\ last.result = "Ok")
           => Occurrences(DistanceLayers[distance(unwrap(last.slot))], unwrap(last.slot)) = 1

\* a Greedy insert took the second coordinate of the layer of distance 2,
\* a layer of six coordinates generated from triples with repeated components
C22_Witness ==
    /\ IsGreedy
    /\ last.op = "insert_item"
    /\ last.result = "Ok"
    /\ Len(DistanceLayers[2]) = 6
    /\ Len(flat_map_i(2, 0)) > 6
    /\ last.slot = Some(DistanceLayers[2][2])

\* the item of size 1 whose availability stands for "a legal anchor"
UnitItem == Item(0, "A", 1, Normal)

\* the trailing cells of every occupant of span >= 2 are no keys of the
\* occupancy map: get_item finds nothing there and _remove_item takes nothing
\* out; after the removal of such an occupant at its anchor each cell of its
\* footprint is available again, and so is the anchor to the item removed
C23_TrailingCellsUnkeyed ==
    /\ \A a \in DOMAIN inventory :
          get_item_size(inventory[a]) >= 2 =>
              \A c \in TrailingCells(a, inventory[a]) :
                  /\ get_item(c) = None
                  /\ _remove_item(inventory, c).item = None
                  /\ _remove_item(inventory, c).inventory = inventory
    /\ (/\ last.op = "remove_item"
        /\ last.result = "Removed"
        /\ get_item_size(last.item) >= 2)
           => /\ \A c \in Footprint(unwrap(last.slot), last.item) :
                    is_slot_available(c, UnitItem, inventory)
              /\ is_slot_available(unwrap(last.slot), last.item, inventory)

(***************************************************************************)
(* C23: the occupancy map is keyed by anchor only.  For an OverSized       *)
(* occupant of span s >= 2, get_item at each trailing cell returns None    *)
(* and remove_item at a trailing cell removes nothing, while remove_item   *)
(* at the anchor frees the whole footprint: all s cells are legal anchors  *)
(* again.                                                                  *)
(***************************************************************************)
C23_AnchorKeyedOccupancy ==
    /\ []C23_TrailingCellsUnkeyed
    /\ [][(last'.op = "remove_item" /\ last'.target = "trailing")
             => /\ last'.result = "Absent"
                /\ UNCHANGED ledger]_vars
    /\ [][(/\ last'.op = "remove_item"
           /\ last'.target = "anchor"
           /\ get_item_size(last'.item) >= 2)
             => /\ last'.result = "Removed"
                /\ DOMAIN inventory' = (DOMAIN inventory) \ {unwrap(last'.slot)}]_vars

\* an occupant of span 3 was removed at its anchor while an occupant on
\* another shelf or row, itself of span >= 2, stays
C23_Witness ==
    /\ last.op = "remove_item"
    /\ last.result = "Removed"
    /\ get_item_size(last.item) = MAX_INVENTORY_SIZE
    /\ \E a \in DOMAIN inventory : get_item_size(inventory[a]) >= 2
    /\ \A c \in Footprint(unwrap(last.slot), last.item) : get_item(c) = None

\* the ledger's allocator with its cursor as a call of alloc left it
After(r) == [allocator EXCEPT !.prev_alloc = r.prev_alloc]

(***************************************************************************)
(* C24: under Round-Robin, with the occupancy unchanged in between, an     *)
(* item for which some coordinate of the grid is a legal anchor is         *)
(* allocated within two consecutive calls of alloc: when the first call    *)
(* fails it leaves prev_alloc = None and the second call, scanning the     *)
(* whole grid, returns a slot.  The attempts are the insert_item calls     *)
(* that the filters let through to the allocator; in the state a failed    *)
(* insert_item leaves, the next alloc for the same item returns a slot.    *)
(***************************************************************************)
C24_RoundRobinSucceedsWithinTwo ==
    IsRoundRobin =>
        /\ \A item \in Items :
              LET first == alloc(allocator, item, inventory)
                  second == alloc(After(first), item, inventory)
              IN  \/ first.slot # None
                  \/ LegalAnchors(item, inventory) = {}
                  \/ /\ first.prev_alloc = None
                     /\ second.slot # None
                     /\ second.slot = FirstAccepted(RoundRobinScans[Slot(0, 0, 0)],
                                                    item, inventory)
        /\ (/\ last.op = "insert_item"
            /\ last.result = "FailedAllocation"
            /\ LegalAnchors(last.item, inventory) # {})
               => /\ allocator.prev_alloc = None
                  /\ alloc(allocator, last.item, inventory).slot # None

\* a first attempt failed although a legal anchor exists; the cursor is reset
\* and the second attempt would take the first legal anchor of the grid
C24_Witness ==
    /\ IsRoundRobin
    /\ last.op = "insert_item"
    /\ last.result = "FailedAllocation"
    /\ LegalAnchors(last.item, inventory) # {}
    /\ allocator.prev_alloc = None
    /\ alloc(allocator, last.item, inventory).slot
           = Some(LexMin(LegalAnchors(last.item, inventory)))

(***************************************************************************)
(* C25: remove_item never changes the Round-Robin cursor; a successful     *)
(* Round-Robin alloc never returns a coordinate lexicographically smaller  *)
(* than the cursor it started from, removals before it or not; and the     *)
(* cursor is reset only by a failed allocation, so a coordinate before the *)
(* cursor is returned only after one.                                      *)
(***************************************************************************)
C25_RemovalsKeepCursor ==
    /\ [][last'.op = "remove_item" => UNCHANGED allocator]_vars
    /\ [][(/\ IsRoundRobin
           /\ allocator.prev_alloc # None
           /\ last'.op = "insert_item"
           /\ last'.result = "Ok")
          => ~LexLess(unwrap(last'.slot), unwrap(allocator.prev_alloc))]_vars
    /\ [][(/\ IsRoundRobin
           /\ allocator.prev_alloc # None
           /\ allocator'.prev_alloc = None)
          => /\ last'.op = "insert_item"
             /\ last'.result = "FailedAllocation"]_vars

\* after two inserts of id 0 and a removal, the third insert went past the
\* cursor although the anchor freed before the cursor is legal for its item
C25_Witness ==
    /\ IsRoundRobin
    /\ last.op = "insert_item"
    /\ last.result = "Ok"
    /\ inserts = 3
    /\ Cardinality(DOMAIN inventory) = 2
    /\ 1 \notin DOMAIN map_ids
    /\ \E c \in LegalAnchors(last.item, inventory) :
          /\ LexLess(c, unwrap(last.slot))
          /\ \A a \in DOMAIN inventory : LexLess(c, a)

\* a Greedy ledger's allocator is as constructed, and for every item it
\* returns what a freshly constructed Greedy allocator returns on the same
\* occupancy: the first accepted coordinate of the scan by distance
C26_GreedyAsFresh ==
    IsGreedy =>
        /\ allocator = GreedyDefault
        /\ \A item \in Items :
              /\ alloc(allocator, item, inventory).slot
                     = alloc(GreedyDefault, item, inventory).slot
              /\ alloc(allocator, item, inventory).slot
                     = FirstAccepted(GreedyScan, item, inventory)
              /\ After(alloc(allocator, item, inventory)) = allocator

(***************************************************************************)
(* C26: Greedy alloc is stateless and deterministic: whatever inserts,     *)
(* removals and failed allocations led to an occupancy, the anchor         *)
(* returned for an item is the one a fresh Greedy allocator returns on     *)
(* that occupancy, so two ledgers holding the same occupancy return the    *)
(* same anchor; a failed Greedy allocation changes neither the allocator   *)
(* nor the occupancy, the indices or the filters.                          *)
(***************************************************************************)
C26_GreedyStateless ==
    /\ []C26_GreedyAsFresh
    /\ [][(IsGreedy /\ last'.op = "insert_item" /\ last'.result # "FilteredItem")
             => /\ last'.slot = alloc(GreedyDefault, last'.item, inventory).slot
                /\ allocator' = allocator]_vars
    /\ [][(IsGreedy /\ last'.op = "insert_item" /\ last'.result = "FailedAllocation")
             => UNCHANGED <<allocator, ledger, filters>>]_vars

\* a Greedy ledger with three inserts and a removal behind it has just failed
\* an allocation, and the next item still goes where a fresh allocator puts it
C26_Witness ==
    /\ IsGreedy
    /\ last.op = "insert_item"
    /\ last.result = "FailedAllocation"
    /\ inserts = 3
    /\ Cardinality(DOMAIN inventory) = 2
    /\ Slot(0, 0, 0) \notin DOMAIN inventory
    /\ alloc(allocator, UnitItem, inventory).slot = Some(Slot(0, 0, 0))

\* the verdict of a chain on an item: every filter of it accepts
AllAccept(chain, item, inv) == \A i \in DOMAIN chain : filter(chain[i], item, inv)

(***************************************************************************)
(* C27: set_filters replaces the chain wholesale.  The call leaves the     *)
(* occupancy map, the four indices and the allocator unchanged and makes   *)
(* the chain handed over the chain in force; from then on an item is       *)
(* admitted iff every filter of that chain accepts it, whatever chain was  *)
(* configured before; occupants that violate the new chain stay.           *)
(***************************************************************************)
C27_SetFiltersReplaces ==
    /\ [][last'.op = "set_filters"
             => /\ filters' = ChainNamed[last'.target]
                /\ UNCHANGED <<ledger, allocator, inserts>>]_vars
    /\ [](last.op = "set_filters"
             => \A item \in Items :
                    is_allowed_by_filters(filters, item, inventory)
                        <=> AllAccept(ChainNamed[last.target], item, inventory))
    /\ [][(last.op = "set_filters" /\ last'.op = "insert_item")
             => (last'.result # "FilteredItem"
                    <=> AllAccept(ChainNamed[last.target], last'.item, inventory))]_vars

\* the chain of the filter test was set on a ledger that holds an occupant of
\* the banned quality, stored while no filter was in force: the occupant
\* stays, the cursor is still set, and an item that no filter rejected before
\* is rejected now
C27_Witness ==
    /\ last.op = "set_filters"
    /\ last.target = "test_filters"
    /\ filters = ChainNamed["test_filters"]
    /\ allocator.prev_alloc # None
    /\ \E s \in DOMAIN inventory : inventory[s].quality = OverSized(MAX_INVENTORY_SIZE)
    /\ \E item \in Items :
          /\ ~is_allowed_by_filters(filters, item, inventory)
          /\ is_allowed_by_filters(<< >>, item, inventory)

====
